---- MODULE Spec2Model ----
(***************************************************************************)
(* Turn sorting comparators (algorithms/detail/relate/turns.hpp) and the   *)
(* intersection-point policy (policies/relate/intersection_points.hpp) of  *)
(* Boost.Geometry, as state machines whose initial states draw the inputs  *)
(* of the pure functions and whose actions apply them.                     *)
(***************************************************************************)
EXTENDS Integers, Sequences, FiniteSets

VARIABLES
    lop, rop, opres,            \* two turn operations and the LessOp applied to them
    tl, tr, sres,               \* two turns and the result of less<OpId, LessOp>
    sa, sb, cres,               \* two collinear segments and segments_collinear's result
    s1, s2, xres                \* two crossing segments and segments_crosses's outcome

vars == <<lop, rop, opres, tl, tr, sres, sa, sb, cres, s1, s2, xres>>

\* ------------------------------------------------------------------ bounds

MaxMulti == 1       \* other_id.multi_index of a compared operation: 0..MaxMulti
MaxRing == 1        \* other_id.ring_index of a compared operation: -1..MaxRing
MaxSeg == 1         \* seg_id.segment_index of a turn: 0..MaxSeg
MaxDen == 2         \* the fractions of a turn: 0, 1, 1/MaxDen and 2/(2*MaxDen)
MaxLine == 3        \* coordinates of collinear segments: 0..MaxLine
MaxCoord == 2       \* coordinates of crossing segments: 0..MaxCoord
PointMax == 1       \* the intersection point's coordinate type holds -PointMax-1..PointMax

NoResult == [kind |-> "none"]

\* ------------------------------------------------- turns.hpp: operations

Operations == {"none", "union", "intersection", "blocked", "continue", "opposite"}

\* op_to_int<N, U, I, B, C, O>::operator()
op_to_int(N, U, I, B, C, O, op) ==
    CASE op.operation = "none" -> N
      [] op.operation = "union" -> U
      [] op.operation = "intersection" -> I
      [] op.operation = "blocked" -> B
      [] op.operation = "continue" -> C
      [] op.operation = "opposite" -> O
      [] OTHER -> -1

\* less_op_xxx_linear< op_to_int<> >, the default LessOp of less
less_op_xxx_linear(left, right) ==
    op_to_int(0, 1, 2, 3, 4, 0, left) < op_to_int(0, 1, 2, 3, 4, 0, right)

\* less_op_linear_linear with the two ranks compared the other way round
less_op_linear_linear_reversed(left, right) ==
    op_to_int(0, 2, 3, 1, 4, 0, right) < op_to_int(0, 2, 3, 1, 4, 0, left)

\* less_op_linear_linear : less_op_xxx_linear< op_to_int<0,2,3,1,4,0> >
less_op_linear_linear(left, right) ==
    op_to_int(0, 2, 3, 1, 4, 0, left) < op_to_int(0, 2, 3, 1, 4, 0, right)

\* less_op_linear_areal reading one table for equal and for different rings
less_op_linear_areal_same_table(left, right) ==
    IF left.other_id.multi_index = right.other_id.multi_index
    THEN op_to_int(0, 2, 3, 1, 4, 0, left) < op_to_int(0, 2, 3, 1, 4, 0, right)
    ELSE left.other_id.multi_index < right.other_id.multi_index

\* less_op_linear_areal::operator()
less_op_linear_areal(left, right) ==
    LET op_to_int_xuic(op) == op_to_int(0, 2, 3, 1, 4, 0, op)
        op_to_int_xiuc(op) == op_to_int(0, 3, 2, 1, 4, 0, op)
    IN  IF left.other_id.multi_index = right.other_id.multi_index
        THEN IF left.other_id.ring_index = right.other_id.ring_index
             THEN op_to_int_xuic(left) < op_to_int_xuic(right)
             ELSE op_to_int_xiuc(left) < op_to_int_xiuc(right)
        ELSE left.other_id.multi_index < right.other_id.multi_index

\* less_op_areal_linear : less_op_xxx_linear< op_to_int<0,1,0,0,2,0> >
less_op_areal_linear(left, right) ==
    op_to_int(0, 1, 0, 0, 2, 0, left) < op_to_int(0, 1, 0, 0, 2, 0, right)

\* less_op_areal_areal ordering different components by multi_index
less_op_areal_areal_by_multi(left, right) ==
    IF left.other_id.multi_index = right.other_id.multi_index
    THEN op_to_int(0, 1, 2, 3, 4, 0, left) < op_to_int(0, 1, 2, 3, 4, 0, right)
    ELSE left.other_id.multi_index < right.other_id.multi_index

\* less_op_areal_areal::operator()
less_op_areal_areal(left, right) ==
    LET op_to_int_uixc(op) == op_to_int(0, 1, 2, 3, 4, 0, op)
        op_to_int_iuxc(op) == op_to_int(0, 2, 1, 3, 4, 0, op)
    IN  IF left.other_id.multi_index = right.other_id.multi_index
        THEN IF left.other_id.ring_index = right.other_id.ring_index
             THEN op_to_int_uixc(left) < op_to_int_uixc(right)
             ELSE IF left.other_id.ring_index = -1
                  THEN IF left.operation = "union"
                       THEN FALSE
                       ELSE IF left.operation = "intersection"
                            THEN TRUE
                            ELSE op_to_int_iuxc(left) < op_to_int_iuxc(right)
                  ELSE IF right.other_id.ring_index = -1
                       THEN IF right.operation = "union"
                            THEN TRUE
                            ELSE IF right.operation = "intersection"
                                 THEN FALSE
                                 ELSE op_to_int_iuxc(left) < op_to_int_iuxc(right)
                       ELSE op_to_int_iuxc(left) < op_to_int_iuxc(right)
        ELSE op_to_int_uixc(left) < op_to_int_uixc(right)

LessOps == {"less_op_linear_linear", "less_op_linear_areal",
            "less_op_areal_linear", "less_op_areal_areal"}

\* the instantiation of the template parameter LessOp
less_op(LessOp, left, right) ==
    CASE LessOp = "less_op_linear_linear" -> less_op_linear_linear(left, right)
      [] LessOp = "less_op_linear_areal" -> less_op_linear_areal(left, right)
      [] LessOp = "less_op_areal_linear" -> less_op_areal_linear(left, right)
      [] LessOp = "less_op_areal_areal" -> less_op_areal_areal(left, right)
      [] OTHER -> less_op_xxx_linear(left, right)

\* ------------------------------------- segment identifiers, exact ratios

segment_identifier(source, multi, ring, seg) ==
    [source_index |-> source, multi_index |-> multi,
     ring_index |-> ring, segment_index |-> seg]

\* segment_identifier::operator<: lexicographic over the four fields
seg_id_less(l, r) ==
    IF l.source_index # r.source_index THEN l.source_index < r.source_index
    ELSE IF l.multi_index # r.multi_index THEN l.multi_index < r.multi_index
    ELSE IF l.ring_index # r.ring_index THEN l.ring_index < r.ring_index
    ELSE l.segment_index < r.segment_index

\* segment_identifier::operator==
seg_id_equal(l, r) ==
    /\ l.source_index = r.source_index
    /\ l.segment_index = r.segment_index
    /\ l.ring_index = r.ring_index
    /\ l.multi_index = r.multi_index

\* segment_ratio(numerator, denominator): the sign is moved to the numerator
segment_ratio(n, d) ==
    IF d < 0 THEN [numerator |-> -n, denominator |-> -d]
             ELSE [numerator |-> n, denominator |-> d]

ratio_zero == segment_ratio(0, 1)
ratio_one == segment_ratio(1, 1)

\* segment_ratio::operator<, by cross-multiplication
ratio_less(l, r) == l.numerator * r.denominator < r.numerator * l.denominator

\* segment_ratio::operator==, by cross-multiplication
ratio_equal(l, r) == l.numerator * r.denominator = r.numerator * l.denominator

\* segment_ratio::on_segment: 0 <= ratio <= 1
on_segment(r) == r.numerator >= 0 /\ r.numerator <= r.denominator

\* segment_ratio::in_segment: 0 < ratio < 1
in_segment(r) == r.numerator > 0 /\ r.numerator < r.denominator

\* ---------------------------------------------------- turns.hpp: less

\* less<OpId, LessOp>::use_fraction
use_fraction(LessOp, left, right) ==
    IF ratio_equal(left.fraction, right.fraction)
    THEN less_op(LessOp, left, right)
    ELSE ratio_less(left.fraction, right.fraction)

\* less::operator() without the test sl == sr
less_without_seg_id_equal(OpId, LessOp, left, right) ==
    LET sl == left.operations[OpId + 1].seg_id
        sr == right.operations[OpId + 1].seg_id
    IN  \/ seg_id_less(sl, sr)
        \/ use_fraction(LessOp, left.operations[OpId + 1], right.operations[OpId + 1])

\* less<OpId, LessOp>::operator()
less(OpId, LessOp, left, right) ==
    LET sl == left.operations[OpId + 1].seg_id
        sr == right.operations[OpId + 1].seg_id
    IN  \/ seg_id_less(sl, sr)
        \/ /\ seg_id_equal(sl, sr)
           /\ use_fraction(LessOp, left.operations[OpId + 1],
                           right.operations[OpId + 1])

\* ------------------------------------------------ the inputs of the sort

\* a turn operation as the comparators read it
turn_operation(seg_id, fraction, operation, other_id) ==
    [seg_id |-> seg_id, fraction |-> fraction,
     operation |-> operation, other_id |-> other_id]

\* the operations handed to a LessOp: every tag against every component and
\* ring of the other geometry, the outer ring (-1) included
OpSet ==
    { turn_operation(segment_identifier(0, 0, -1, 0), ratio_zero, t,
                     segment_identifier(1, m, r, 0)) :
        t \in Operations, m \in 0..MaxMulti, r \in -1..MaxRing }

\* segments of geometry 0: the outer ring's, and the first segment of a hole
SegIds0 ==
    { segment_identifier(0, 0, -1, i) : i \in 0..MaxSeg }
        \cup { segment_identifier(0, 0, 0, 0) }

\* segments of geometry 1: outer ring and first hole of two components
SegIds1 == { segment_identifier(1, m, r, 0) : m \in {0, 1}, r \in {-1, 0} }

\* positions along a segment; 1/MaxDen is there in two representations
Fractions ==
    { ratio_zero, ratio_one, segment_ratio(1, MaxDen), segment_ratio(-2, -2 * MaxDen) }

\* the tag get_turn_info gives the other operand of a turn
other_operation(t) ==
    CASE t = "union" -> "intersection"
      [] t = "intersection" -> "union"
      [] OTHER -> t

\* a turn: operations[0] on a segment of geometry 0 and operations[1] on a
\* segment of geometry 1, each naming the other's segment as its other_id
turn(sid0, sid1, f, t) ==
    [operations |->
        << turn_operation(sid0, f, t, sid1),
           turn_operation(sid1, segment_ratio(f.denominator - f.numerator, f.denominator),
                          other_operation(t), sid0) >>]

TurnSet ==
    { turn(a, b, f, t) : a \in SegIds0, b \in SegIds1, f \in Fractions, t \in Operations }

NoTurn == [operations |-> <<>>]
NoOperation == [operation |-> "none"]
NoSegment == <<>>

\* --------------------------------------- specification: the LessOp alone

InitOp ==
    /\ lop \in OpSet /\ rop \in OpSet /\ opres = NoResult
    /\ tl = NoTurn /\ tr = NoTurn /\ sres = NoResult
    /\ sa = NoSegment /\ sb = NoSegment /\ cres = NoResult
    /\ s1 = NoSegment /\ s2 = NoSegment /\ xres = NoResult

\* one call LessOp()(lop, rop)
ApplyLessOp ==
    /\ opres = NoResult
    /\ \E L \in LessOps \cup {"less_op_xxx_linear"} :
           opres' = [kind |-> L, value |-> less_op(L, lop, rop)]
    /\ UNCHANGED <<lop, rop, tl, tr, sres, sa, sb, cres, s1, s2, xres>>

NextOp == ApplyLessOp

SpecOp == InitOp /\ [][NextOp]_vars

\* ------------------------------- specification: less<OpId, LessOp> on turns

InitSort ==
    /\ tl \in TurnSet /\ tr \in TurnSet /\ sres = NoResult
    /\ lop = NoOperation /\ rop = NoOperation /\ opres = NoResult
    /\ sa = NoSegment /\ sb = NoSegment /\ cres = NoResult
    /\ s1 = NoSegment /\ s2 = NoSegment /\ xres = NoResult

\* one call less<OpId, LessOp>()(tl, tr)
Compare ==
    /\ sres = NoResult
    /\ \E OpId \in {0, 1}, L \in LessOps :
           sres' = [kind |-> L, OpId |-> OpId, value |-> less(OpId, L, tl, tr)]
    /\ UNCHANGED <<lop, rop, opres, tl, tr, sa, sb, cres, s1, s2, xres>>

NextSort == Compare

SpecSort == InitSort /\ [][NextSort]_vars

\* ------------------------------ intersection_points.hpp: segments_collinear

NoPoint == <<>>
NoFraction == [robust_ra |-> ratio_zero, robust_rb |-> ratio_zero]

\* return_type(): no intersection points
empty_result ==
    [kind |-> "result", count |-> 0,
     intersections |-> <<NoPoint, NoPoint>>, fractions |-> <<NoFraction, NoFraction>>]

\* fractions[index].assign(ra, rb)
fraction(ra, rb) == [robust_ra |-> ra, robust_rb |-> rb]

\* an end of a tested as the ends of b are
a_endpoint_in_segment(r) == in_segment(r)

\* the test of an endpoint of a against b: ra_from_wrt_b.on_segment(), ra_to_wrt_b.on_segment()
a_endpoint_admitted(r) == on_segment(r)

\* an end of b tested as the ends of a are
b_endpoint_on_segment(r) == on_segment(r)

\* the test of an endpoint of b against a: rb_from_wrt_a.in_segment(), rb_to_wrt_a.in_segment()
b_endpoint_admitted(r) == in_segment(r)

\* the body of one admitting branch: the point, its fractions and its position
\* on a are stored at index, and index goes up by one
admit(st, point, fr, on_a) ==
    [index |-> st.index + 1,
     intersections |-> [st.intersections EXCEPT ![st.index + 1] = point],
     fractions |-> [st.fractions EXCEPT ![st.index + 1] = fr],
     on_a |-> [st.on_a EXCEPT ![st.index + 1] = on_a]]

\* segments_collinear without the swap
never_swap(st) == st

\* if (index == 2 && on_a[1] < on_a[0]) swap the two results
swap_if_reversed(st) ==
    IF st.index = 2 /\ ratio_less(st.on_a[2], st.on_a[1])
    THEN [st EXCEPT !.intersections = <<st.intersections[2], st.intersections[1]>>,
                    !.fractions = <<st.fractions[2], st.fractions[1]>>]
    ELSE st

\* segments_collinear(a, b, ra_from_wrt_b, ra_to_wrt_b, rb_from_wrt_a, rb_to_wrt_a)
segments_collinear(a, b, ra_from_wrt_b, ra_to_wrt_b, rb_from_wrt_a, rb_to_wrt_a) ==
    LET r0 == [index |-> 0,
               intersections |-> <<NoPoint, NoPoint>>,
               fractions |-> <<NoFraction, NoFraction>>,
               on_a |-> <<ratio_zero, ratio_zero>>]
        r1 == IF a_endpoint_admitted(ra_from_wrt_b) /\ r0.index < 2
              THEN admit(r0, a[1], fraction(ratio_zero, ra_from_wrt_b), ratio_zero)
              ELSE r0
        r2 == IF b_endpoint_admitted(rb_from_wrt_a) /\ r1.index < 2
              THEN admit(r1, b[1], fraction(rb_from_wrt_a, ratio_zero), rb_from_wrt_a)
              ELSE r1
        r3 == IF a_endpoint_admitted(ra_to_wrt_b) /\ r2.index < 2
              THEN admit(r2, a[2], fraction(ratio_one, ra_to_wrt_b), ratio_one)
              ELSE r2
        r4 == IF b_endpoint_admitted(rb_to_wrt_a) /\ r3.index < 2
              THEN admit(r3, b[2], fraction(rb_to_wrt_a, ratio_one), rb_to_wrt_a)
              ELSE r3
        r5 == swap_if_reversed(r4)
    IN  [kind |-> "result", count |-> r5.index,
         intersections |-> r5.intersections, fractions |-> r5.fractions]

\* ----------------------------------------- the inputs of segments_collinear

Abs(x) == IF x < 0 THEN -x ELSE x

LinePoints == (0..MaxLine) \X (0..MaxLine)

\* segments whose two points differ
LineSegments == { s \in LinePoints \X LinePoints : s[1] # s[2] }

\* the three points are on one line
on_one_line(p, q, r) ==
    (q[1] - p[1]) * (r[2] - p[2]) = (q[2] - p[2]) * (r[1] - p[1])

collinear(a, b) == on_one_line(a[1], a[2], b[1]) /\ on_one_line(a[1], a[2], b[2])

\* the coordinate the collinear case projects on: x, unless y varies more
projected(a, b, p) ==
    IF Abs(a[2][1] - a[1][1]) + Abs(b[2][1] - b[1][1])
         >= Abs(a[2][2] - a[1][2]) + Abs(b[2][2] - b[1][2])
    THEN p[1]
    ELSE p[2]

\* the position of an endpoint of one segment along the other segment
ra_from_wrt_b(a, b) ==
    segment_ratio(projected(a, b, a[1]) - projected(a, b, b[1]),
                  projected(a, b, b[2]) - projected(a, b, b[1]))
ra_to_wrt_b(a, b) ==
    segment_ratio(projected(a, b, a[2]) - projected(a, b, b[1]),
                  projected(a, b, b[2]) - projected(a, b, b[1]))
rb_from_wrt_a(a, b) ==
    segment_ratio(projected(a, b, b[1]) - projected(a, b, a[1]),
                  projected(a, b, a[2]) - projected(a, b, a[1]))
rb_to_wrt_a(a, b) ==
    segment_ratio(projected(a, b, b[2]) - projected(a, b, a[1]),
                  projected(a, b, a[2]) - projected(a, b, a[1]))

\* ------------------------------------- specification: segments_collinear

InitCollinear ==
    /\ sa \in LineSegments /\ sb \in LineSegments /\ collinear(sa, sb)
    /\ cres = NoResult
    /\ lop = NoOperation /\ rop = NoOperation /\ opres = NoResult
    /\ tl = NoTurn /\ tr = NoTurn /\ sres = NoResult
    /\ s1 = NoSegment /\ s2 = NoSegment /\ xres = NoResult

\* one call segments_collinear(sa, sb, ...) with the ratios of sa and sb
SegmentsCollinear ==
    /\ cres = NoResult
    /\ cres' = segments_collinear(sa, sb, ra_from_wrt_b(sa, sb), ra_to_wrt_b(sa, sb),
                                  rb_from_wrt_a(sa, sb), rb_to_wrt_a(sa, sb))
    /\ UNCHANGED <<lop, rop, opres, tl, tr, sres, sa, sb, s1, s2, xres>>

NextCollinear == SegmentsCollinear

SpecCollinear == InitCollinear /\ [][NextCollinear]_vars

\* --------------------- intersection_points.hpp: assign, segments_crosses

\* a / b as C++ divides integers: the quotient is truncated towards zero
int_div(a, b) ==
    IF (a >= 0) = (b > 0) THEN Abs(a) \div Abs(b) ELSE -(Abs(a) \div Abs(b))

\* the value range of coordinate_type<Point>. Point and Segment are separate
\* template parameters of assign: the intersection point may have a narrower
\* coordinate type than the segments, which is what numeric_cast guards
fits_coordinate_type(v) == v >= -PointMax - 1 /\ v <= PointMax

\* the coordinate with the division done before the multiplication
coordinate_divided_first(start, ratio, d) ==
    start + int_div(ratio.numerator, ratio.denominator) * d

\* get<0, i>(segment) + ratio.numerator() * d / ratio.denominator()
coordinate(start, ratio, d) ==
    start + int_div(ratio.numerator * d, ratio.denominator)

\* the two values assign() hands to numeric_cast
assign_values(segment, ratio, dx, dy) ==
    << coordinate(segment[1][1], ratio, dx), coordinate(segment[1][2], ratio, dy) >>

\* assign(point, segment, ratio, dx, dy): the point set, or the exception
\* boost::numeric_cast throws for a value outside coordinate_type
assign(segment, ratio, dx, dy) ==
    LET v == assign_values(segment, ratio, dx, dy)
    IN  IF ratio.denominator = 0
        THEN [kind |-> "assertion_failed"]
        ELSE IF fits_coordinate_type(v[1]) /\ fits_coordinate_type(v[2])
             THEN [kind |-> "point", point |-> v]
             ELSE [kind |-> "bad_numeric_cast"]

\* segments_crosses(side_info, sinfo, s1, s2): the result, or the exception of assign
segments_crosses(sinfo, seg1, seg2) ==
    LET p == IF ratio_less(sinfo.robust_ra, sinfo.robust_rb)
             THEN assign(seg1, sinfo.robust_ra, sinfo.dx_a, sinfo.dy_a)
             ELSE assign(seg2, sinfo.robust_rb, sinfo.dx_b, sinfo.dy_b)
    IN  IF p.kind = "point"
        THEN [kind |-> "result", count |-> 1,
              intersections |-> <<p.point, NoPoint>>,
              fractions |-> <<fraction(sinfo.robust_ra, sinfo.robust_rb), NoFraction>>]
        ELSE p

\* disjoint(): return_type()
disjoint == empty_result

\* ------------------------------------------- the inputs of segments_crosses

Points == (0..MaxCoord) \X (0..MaxCoord)

Segments == { s \in Points \X Points : s[1] # s[2] }

determinant(ax, ay, bx, by) == ax * by - ay * bx

\* the segment_intersection_info of two segments: the deltas of each and,
\* by Cramer's rule, the position of the crossing along each
segment_intersection_info(a, b) ==
    LET dx_a == a[2][1] - a[1][1]
        dy_a == a[2][2] - a[1][2]
        dx_b == b[2][1] - b[1][1]
        dy_b == b[2][2] - b[1][2]
    IN  [dx_a |-> dx_a, dy_a |-> dy_a, dx_b |-> dx_b, dy_b |-> dy_b,
         robust_ra |->
             segment_ratio(determinant(dx_b, dy_b, a[1][1] - b[1][1], a[1][2] - b[1][2]),
                           determinant(dx_a, dy_a, dx_b, dy_b)),
         robust_rb |->
             segment_ratio(determinant(dx_a, dy_a, b[1][1] - a[1][1], b[1][2] - a[1][2]),
                           determinant(dx_b, dy_b, dx_a, dy_a))]

\* the two segments are not parallel
crossing_lines(a, b) ==
    determinant(a[2][1] - a[1][1], a[2][2] - a[1][2],
                b[2][1] - b[1][1], b[2][2] - b[1][2]) # 0

\* the lines cross at a point of both segments
segments_meet(a, b) ==
    /\ on_segment(segment_intersection_info(a, b).robust_ra)
    /\ on_segment(segment_intersection_info(a, b).robust_rb)

\* --------------------------------------- specification: segments_crosses

InitCrosses ==
    /\ s1 \in Segments /\ s2 \in Segments /\ crossing_lines(s1, s2)
    /\ xres = NoResult
    /\ lop = NoOperation /\ rop = NoOperation /\ opres = NoResult
    /\ tl = NoTurn /\ tr = NoTurn /\ sres = NoResult
    /\ sa = NoSegment /\ sb = NoSegment /\ cres = NoResult

\* one call segments_crosses(sides, sinfo, s1, s2), for segments that meet
SegmentsCrosses ==
    /\ xres = NoResult
    /\ segments_meet(s1, s2)
    /\ xres' = segments_crosses(segment_intersection_info(s1, s2), s1, s2)
    /\ UNCHANGED <<lop, rop, opres, tl, tr, sres, sa, sb, cres, s1, s2>>

\* one call disjoint(), for segments that do not meet
Disjoint ==
    /\ xres = NoResult
    /\ ~segments_meet(s1, s2)
    /\ xres' = disjoint
    /\ UNCHANGED <<lop, rop, opres, tl, tr, sres, sa, sb, cres, s1, s2>>

NextCrosses == SegmentsCrosses \/ Disjoint

SpecCrosses == InitCrosses /\ [][NextCrosses]_vars

\* ------------------------------------------------------------- properties

\* the operands less<OpId, LessOp> compared in the call recorded in sres
LeftOp == tl.operations[sres.OpId + 1]
RightOp == tr.operations[sres.OpId + 1]

\* C1: less<OpId, LessOp> is a strict weak order for each of the four
\* operation comparators: no turn is less than itself, and whenever
\* less(tl, tr) and less(tr, c) hold for a turn c, less(tl, c) holds too.
C1_StrictWeakOrder ==
    sres # NoResult =>
        /\ ~less(sres.OpId, sres.kind, tl, tl)
        /\ \A c \in TurnSet :
               (sres.value /\ less(sres.OpId, sres.kind, tr, c))
                   => less(sres.OpId, sres.kind, tl, c)

\* C2: less<OpId, LessOp> is lexicographic on operand OpId: the smaller
\* seg_id decides whatever the fractions and operations are, with equal seg_id
\* the smaller fraction decides whatever the operations are, and only with
\* equal seg_id and equal fraction the result is the one LessOp returns.
C2_Lexicographic ==
    sres # NoResult =>
        /\ seg_id_less(LeftOp.seg_id, RightOp.seg_id) => sres.value
        /\ seg_id_less(RightOp.seg_id, LeftOp.seg_id) => ~sres.value
        /\ LeftOp.seg_id = RightOp.seg_id =>
             /\ ratio_less(LeftOp.fraction, RightOp.fraction) => sres.value
             /\ ratio_less(RightOp.fraction, LeftOp.fraction) => ~sres.value
             /\ (/\ ~ratio_less(LeftOp.fraction, RightOp.fraction)
                 /\ ~ratio_less(RightOp.fraction, LeftOp.fraction))
                    => sres.value = less_op(sres.kind, LeftOp, RightOp)

\* a comparison the fraction would decide the other way round, decided by the
\* seg_id, and one of equal fractions written differently, decided by LessOp
C2_Witness ==
    /\ sres # NoResult
    /\ \/ /\ seg_id_less(LeftOp.seg_id, RightOp.seg_id)
          /\ ratio_less(RightOp.fraction, LeftOp.fraction)
          /\ sres.value
       \/ /\ LeftOp.seg_id = RightOp.seg_id
          /\ LeftOp.fraction # RightOp.fraction
          /\ ratio_equal(LeftOp.fraction, RightOp.fraction)
          /\ sres.value

\* the positions of the segments' ends along the line, in a's direction
AlongA(p) ==
    IF projected(sa, sb, sa[1]) < projected(sa, sb, sa[2])
    THEN projected(sa, sb, p) - projected(sa, sb, sa[1])
    ELSE projected(sa, sb, sa[1]) - projected(sa, sb, p)

Min(x, y) == IF x < y THEN x ELSE y
Max(x, y) == IF x < y THEN y ELSE x

\* sa and sb have a point in common
Overlap ==
    Max(Min(AlongA(sa[1]), AlongA(sa[2])), Min(AlongA(sb[1]), AlongA(sb[2])))
        <= Min(Max(AlongA(sa[1]), AlongA(sa[2])), Max(AlongA(sb[1]), AlongA(sb[2])))

\* sb runs against sa
Opposite == AlongA(sb[2]) < AlongA(sb[1])

\* C3: for collinear segments that overlap, segments_collinear returns count 1
\* or 2, and with count 2 the first result is not further along a than the
\* second one: by its A-ratio and by the place of its point, whichever way b runs.
C3_OrderedAlongA ==
    (cres # NoResult /\ Overlap) =>
        /\ cres.count \in {1, 2}
        /\ cres.count = 2 =>
             /\ ~ratio_less(cres.fractions[2].robust_ra, cres.fractions[1].robust_ra)
             /\ AlongA(cres.intersections[1]) <= AlongA(cres.intersections[2])

\* b lies inside a and runs against it: both results are ends of b, swapped
C3_Witness ==
    /\ cres # NoResult /\ Overlap /\ Opposite
    /\ cres.count = 2
    /\ cres.intersections = <<sb[2], sb[1]>>

\* C9: segments_collinear never returns the same point twice: with count 2 the
\* two intersection points differ, also for segments that share an end, are the
\* same or are each other's reversal; an end of b that is an end of a fails
\* b's in_segment test.
C9_DistinctPoints ==
    cres # NoResult =>
        /\ cres.count = 2 => cres.intersections[1] # cres.intersections[2]
        /\ sb[1] \in {sa[1], sa[2]} => ~in_segment(rb_from_wrt_a(sa, sb))
        /\ sb[2] \in {sa[1], sa[2]} => ~in_segment(rb_to_wrt_a(sa, sb))

\* two results for segments with the same ends, in the same or in the other order
C9_Witness ==
    /\ cres # NoResult /\ cres.count = 2
    /\ {sa[1], sa[2]} = {sb[1], sb[2]}

\* how many of the four range tests of segments_collinear hold
TestsHolding ==
    (IF on_segment(ra_from_wrt_b(sa, sb)) THEN 1 ELSE 0)
        + (IF in_segment(rb_from_wrt_a(sa, sb)) THEN 1 ELSE 0)
        + (IF on_segment(ra_to_wrt_b(sa, sb)) THEN 1 ELSE 0)
        + (IF in_segment(rb_to_wrt_a(sa, sb)) THEN 1 ELSE 0)

\* C10: at most two of the four range tests hold, and the count returned is the
\* number of tests that hold.
C10_CountIsTestsHolding ==
    cres # NoResult => (TestsHolding <= 2 /\ cres.count = TestsHolding)

\* two tests hold although three of the four ends lie on the other segment
C10_Witness ==
    /\ cres # NoResult /\ cres.count = 2 /\ TestsHolding = 2
    /\ sa[1] = sb[1] /\ sa[2] # sb[2]

\* the crossing is proper: strictly inside both segments
ProperCrossing ==
    /\ in_segment(segment_intersection_info(s1, s2).robust_ra)
    /\ in_segment(segment_intersection_info(s1, s2).robust_rb)

\* the values assign() computes from s1 and from s2
FromA ==
    LET sinfo == segment_intersection_info(s1, s2)
    IN  assign_values(s1, sinfo.robust_ra, sinfo.dx_a, sinfo.dy_a)
FromB ==
    LET sinfo == segment_intersection_info(s1, s2)
    IN  assign_values(s2, sinfo.robust_rb, sinfo.dx_b, sinfo.dy_b)

\* the values of the branch segments_crosses takes
Taken ==
    IF ratio_less(segment_intersection_info(s1, s2).robust_ra,
                  segment_intersection_info(s1, s2).robust_rb)
    THEN FromA
    ELSE FromB

\* the crossing point has integer coordinates
LatticeCrossing ==
    LET sinfo == segment_intersection_info(s1, s2)
    IN  /\ (sinfo.robust_ra.numerator * sinfo.dx_a) % sinfo.robust_ra.denominator = 0
        /\ (sinfo.robust_ra.numerator * sinfo.dy_a) % sinfo.robust_ra.denominator = 0

\* C4: for properly crossing integer segments the point computed from s1 with
\* robust_ra equals the point computed from s2 with robust_rb.
C4_SamePoint ==
    (xres # NoResult /\ ProperCrossing) => FromA = FromB

\* C4, amended: the two computations differ by at most 1 in each coordinate,
\* they agree when the crossing point has integer coordinates, and the point
\* reported is the one of the branch taken.
C4_WithinOne ==
    (xres # NoResult /\ ProperCrossing) =>
        /\ Abs(FromA[1] - FromB[1]) <= 1
        /\ Abs(FromA[2] - FromB[2]) <= 1
        /\ LatticeCrossing => FromA = FromB
        /\ xres.kind = "result" => xres.intersections[1] = Taken

\* a proper crossing whose point is reported and depends on the branch
C4_Witness ==
    /\ xres # NoResult /\ ProperCrossing
    /\ xres.kind = "result"
    /\ FromA # FromB

\* C5: when a value computed in assign() does not fit the coordinate type,
\* segments_crosses returns the empty result of disjoint().
C5_OverflowIsDisjoint ==
    (/\ xres # NoResult
     /\ segments_meet(s1, s2)
     /\ ~(fits_coordinate_type(Taken[1]) /\ fits_coordinate_type(Taken[2])))
        => xres = disjoint

\* the ranks the comparators give the operation tags
Rank(N, U, I, B, C, O) ==
    [t \in Operations |->
        CASE t = "none" -> N [] t = "union" -> U [] t = "intersection" -> I
          [] t = "blocked" -> B [] t = "continue" -> C [] t = "opposite" -> O]

\* C6: less_op_areal_areal compares multi-index first: of two operations with
\* different other_id.multi_index the one with the smaller multi_index is less.
C6_MultiIndexFirst ==
    (/\ opres.kind = "less_op_areal_areal"
     /\ lop.other_id.multi_index # rop.other_id.multi_index)
        => opres.value = (lop.other_id.multi_index < rop.other_id.multi_index)

\* C6, amended: for two operations with different other_id.multi_index
\* less_op_areal_areal compares the tags alone, none = opposite < union <
\* intersection < blocked < continue, whatever the multi and ring indices are.
C6_TagsOnly ==
    (/\ opres.kind = "less_op_areal_areal"
     /\ lop.other_id.multi_index # rop.other_id.multi_index)
        => opres.value = (Rank(0, 1, 2, 3, 4, 0)[lop.operation]
                             < Rank(0, 1, 2, 3, 4, 0)[rop.operation])

\* the operation of the larger multi_index is ordered first
C6_Witness ==
    /\ opres.kind = "less_op_areal_areal"
    /\ lop.other_id.multi_index > rop.other_id.multi_index
    /\ opres.value

\* C7: in less_op_linear_areal, for operations of different ring_index, a
\* union on the outer ring (-1) sorts after every other operation and an
\* intersection on the outer ring before every other, on either side.
C7_OuterRingSentinel ==
    (/\ opres.kind = "less_op_linear_areal"
     /\ lop.other_id.ring_index # rop.other_id.ring_index)
        => /\ (lop.other_id.ring_index = -1 /\ lop.operation = "union") => ~opres.value
           /\ (lop.other_id.ring_index = -1 /\ lop.operation = "intersection") => opres.value
           /\ (rop.other_id.ring_index = -1 /\ rop.operation = "union") => opres.value
           /\ (rop.other_id.ring_index = -1 /\ rop.operation = "intersection") => ~opres.value

\* C7, amended: less_op_linear_areal gives the outer ring no special place:
\* for equal multi_index and different ring_index it compares the tags as
\* none = opposite < blocked < intersection < union < continue, and for
\* different multi_index the smaller multi_index is less.
C7_NoSentinel ==
    (/\ opres.kind = "less_op_linear_areal"
     /\ lop.other_id.ring_index # rop.other_id.ring_index)
        => opres.value =
             IF lop.other_id.multi_index = rop.other_id.multi_index
             THEN Rank(0, 3, 2, 1, 4, 0)[lop.operation]
                      < Rank(0, 3, 2, 1, 4, 0)[rop.operation]
             ELSE lop.other_id.multi_index < rop.other_id.multi_index

\* a union on the outer ring is ordered before a continue on a hole
C7_Witness ==
    /\ opres.kind = "less_op_linear_areal"
    /\ lop.other_id.multi_index = rop.other_id.multi_index
    /\ lop.other_id.ring_index = -1 /\ rop.other_id.ring_index # -1
    /\ lop.operation = "union" /\ rop.operation = "continue"
    /\ opres.value

\* the place of a tag in the chain none < intersection < opposite < blocked < continue
ChainPlace ==
    [t \in Operations \ {"union"} |->
        CASE t = "none" -> 0 [] t = "intersection" -> 1 [] t = "opposite" -> 2
          [] t = "blocked" -> 3 [] t = "continue" -> 4]

\* C8: less_op_linear_linear(x, y) is true for every pair of tags where x
\* comes before y in none < intersection < opposite < blocked < continue.
C8_Chain ==
    (/\ opres.kind = "less_op_linear_linear"
     /\ lop.operation # "union" /\ rop.operation # "union"
     /\ ChainPlace[lop.operation] < ChainPlace[rop.operation])
        => opres.value

\* C8, amended: less_op_linear_linear ranks the tags none = opposite < blocked
\* < union < intersection < continue: it is true exactly for a pair whose
\* first tag has the lower rank.
C8_Ranks ==
    opres.kind = "less_op_linear_linear"
        => opres.value = (Rank(0, 2, 3, 1, 4, 0)[lop.operation]
                             < Rank(0, 2, 3, 1, 4, 0)[rop.operation])

\* blocked is ordered before intersection
C8_Witness ==
    /\ opres.kind = "less_op_linear_linear"
    /\ lop.operation = "blocked" /\ rop.operation = "intersection"
    /\ opres.value

====
